---- MODULE Spec2Model ----
(***************************************************************************)
(* PubMedAPIWrapper of src/pubmed.py: run -> load -> lazy_load ->          *)
(* retrieve_article -> _parse_article.                                     *)
(*                                                                         *)
(* A Python str is a sequence of tokens (a token is one character, or an   *)
(* atomic piece of text such as a URL prefix).  A Python value is a record *)
(* [t, v]: t is its type, v its content.  A raised exception is the value  *)
(* Exc(name); every operator below returns it where the code raises.       *)
(***************************************************************************)
EXTENDS Integers, Sequences, FiniteSets, TLC

max_retry == 5
sleep_time_default == 30
MAX_QUERY_LENGTH == 128

MaxBlocks == 2
MaxArticleIds == 2
MaxIds == 3
MaxSleeps == 5
MaxAged == 2
MaxTail == 3

(***************************************************************************)
(* Python values                                                           *)
(***************************************************************************)
PyStr(s) == [t |-> "str", v |-> s]
PyDict(f) == [t |-> "dict", v |-> f]
PyList(l) == [t |-> "list", v |-> l]
PyNone == [t |-> "none", v |-> <<>>]
Exc(e) == [t |-> "exc", v |-> e]
IsExc(x) == x.t = "exc"
IsKeyError(x) == x.t = "exc" /\ x.v = "KeyError"

\* x[k] for a str key k: only a dict can be subscripted by a str
Sub(x, k) ==
    IF IsExc(x) THEN x
    ELSE IF x.t = "dict"
         THEN IF k \in DOMAIN x.v THEN x.v[k] ELSE Exc("KeyError")
         ELSE Exc("TypeError")

\* x.get(k, default): only a dict has .get
Get(x, k, default) ==
    IF IsExc(x) THEN x
    ELSE IF x.t = "dict"
         THEN IF k \in DOMAIN x.v THEN x.v[k] ELSE default
         ELSE Exc("AttributeError")

\* x[k1][k2]...[kn]
RECURSIVE Path(_, _)
Path(x, keys) ==
    IF keys = <<>> THEN x ELSE Path(Sub(x, Head(keys)), Tail(keys))

\* a + b on str operands
Concat(a, b) ==
    IF IsExc(a) THEN a
    ELSE IF IsExc(b) THEN b
    ELSE IF a.t = "str" /\ b.t = "str" THEN PyStr(a.v \o b.v)
    ELSE Exc("TypeError")

\* `k in x`
In(k, x) ==
    CASE x.t = "dict" -> k \in DOMAIN x.v
      [] x.t = "str"  -> \E i \in 1..Len(x.v) : x.v[i] = k
      [] x.t = "list" -> \E i \in 1..Len(x.v) : x.v[i].t = "str" /\ x.v[i].v = <<k>>
      [] OTHER        -> FALSE

\* `k in x` raises for a value that is not a container
InRaises(x) == x.t \notin {"dict", "str", "list"}

(***************************************************************************)
(* str.strip(): leading and trailing whitespace removed                    *)
(***************************************************************************)
Whitespace == {" ", "\t", "\n"}

RECURSIVE LStrip(_)
LStrip(s) ==
    IF s = <<>> THEN <<>>
    ELSE IF Head(s) \in Whitespace THEN LStrip(Tail(s)) ELSE s

RECURSIVE RStrip(_)
RStrip(s) ==
    IF s = <<>> THEN <<>>
    ELSE IF s[Len(s)] \in Whitespace THEN RStrip(SubSeq(s, 1, Len(s) - 1)) ELSE s

strip(s) == RStrip(LStrip(s))

(***************************************************************************)
(* run, lines 50 and 53, and lazy_load, line 69: the search term           *)
(***************************************************************************)
\* re.sub('\s+', '+', query): every maximal whitespace run becomes one '+'.
\* The first character of a run is replaced by '+', the rest of the run by
\* nothing ("" marks a position that yields no character).
re_sub_ws(s) ==
    LET marked == [i \in 1..Len(s) |->
                     IF s[i] \notin Whitespace THEN s[i]
                     ELSE IF i > 1 /\ s[i - 1] \in Whitespace THEN ""
                     ELSE "+"]
    IN  SelectSeq(marked, LAMBDA c : c # "")

\* s[:n] for n >= 0
Slice(s, n) == SubSeq(s, 1, IF n < Len(s) THEN n ELSE Len(s))

\* variant of line 53: the slice forgotten
NotTruncated(s) == s

\* query[:self.MAX_QUERY_LENGTH]
Truncate(s) == Slice(s, MAX_QUERY_LENGTH)

\* the characters urllib.parse.quote(query, safe=':/?=&"[]+') leaves alone, among
\* those the model's queries are made of (letters are always safe)
QuoteSafe == {"a", "b", "+", ":", "[", "]"}

\* the percent-encoding of the UTF-8 bytes of one character that is not safe
\* ("U+00E9" is the one character e-acute)
PercentEncode(c) ==
    CASE c = "," -> <<"%", "2", "C">>
      [] c = "(" -> <<"%", "2", "8">>
      [] c = "U+00E9" -> <<"%", "C", "3", "%", "A", "9">>

\* quote works character by character: the result is the concatenation of
\* the characters' encodings (computed by halves to keep the recursion shallow)
RECURSIVE quote(_)
quote(s) ==
    IF s = <<>> THEN <<>>
    ELSE IF Len(s) = 1
         THEN (IF s[1] \in QuoteSafe THEN s ELSE PercentEncode(s[1]))
         ELSE LET h == Len(s) \div 2
              IN  quote(SubSeq(s, 1, h)) \o quote(SubSeq(s, h + 1, Len(s)))

\* the argument run passes to load
LoadQuery(query) == Truncate(re_sub_ws(query))

\* the value of the term= parameter of the search request
SearchTerm(query) == quote(LoadQuery(query))

(***************************************************************************)
(* _parse_article                                                          *)
(***************************************************************************)
ArticlePath == <<"PubmedArticleSet", "PubmedArticle", "MedlineCitation", "Article">>
BookPath == <<"PubmedArticleSet", "PubmedBookArticle", "BookDocument">>
ArticleIdPath ==
    <<"PubmedArticleSet", "PubmedArticle", "PubmedData", "ArticleIdList", "ArticleId">>

\* lines 144-149: the standard record, or on KeyError the book record
ArticleOf(text_dict) ==
    LET ar == Path(text_dict, ArticlePath)
    IN  IF IsKeyError(ar) THEN Path(text_dict, BookPath) ELSE ar

\* variant of lines 158-164: the label is put before the category
BlockLineLabelFirst(txt) ==
    IF InRaises(txt) THEN Exc("TypeError")
    ELSE LET p1 == IF In("@Label", txt)
                   THEN Concat(Sub(txt, "@Label"), PyStr(<<":", " ">>))
                   ELSE PyStr(<<>>)
             p2 == IF In("@NlmCategory", txt)
                   THEN Concat(p1, Concat(Sub(txt, "@NlmCategory"), PyStr(<<":", " ">>)))
                   ELSE p1
         IN  IF IsExc(p2) THEN p2
             ELSE IF In("#text", txt) THEN Concat(p2, Sub(txt, "#text"))
             ELSE [t |-> "skip", v |-> <<>>]

\* lines 158-164: one pass of the loop body: the line appended, "skip" when
\* nothing is appended, or the exception raised
BlockLine(txt) ==
    IF InRaises(txt) THEN Exc("TypeError")
    ELSE LET p1 == IF In("@NlmCategory", txt)
                   THEN Concat(Sub(txt, "@NlmCategory"), PyStr(<<":", " ">>))
                   ELSE PyStr(<<>>)
             p2 == IF In("@Label", txt)
                   THEN Concat(p1, Concat(Sub(txt, "@Label"), PyStr(<<":", " ">>)))
                   ELSE p1
         IN  IF IsExc(p2) THEN p2
             ELSE IF In("#text", txt) THEN Concat(p2, Sub(txt, "#text"))
             ELSE [t |-> "skip", v |-> <<>>]

\* lines 156-164: the list `summaries`, or the exception raised
RECURSIVE Summaries(_)
Summaries(blocks) ==
    IF blocks = <<>> THEN PyList(<<>>)
    ELSE LET line == BlockLine(Head(blocks))
         IN  IF IsExc(line) THEN line
             ELSE LET rest == Summaries(Tail(blocks))
                  IN  IF IsExc(rest) THEN rest
                      ELSE IF line.t = "skip" THEN rest
                      ELSE PyList(<<line.v>> \o rest.v)

\* '\n'.join(lines)
RECURSIVE Join(_)
Join(lines) ==
    IF lines = <<>> THEN <<>>
    ELSE IF Len(lines) = 1 THEN lines[1]
    ELSE lines[1] \o <<"\n">> \o Join(Tail(lines))

\* lines 150-165
SummaryOf(ar) ==
    LET abstract_text == Get(Get(ar, "Abstract", PyDict(<<>>)), "AbstractText", PyList(<<>>))
    IN  IF IsExc(abstract_text) THEN abstract_text
        ELSE IF abstract_text.t = "str" THEN abstract_text
        ELSE IF abstract_text.t = "dict" THEN Get(abstract_text, "#text", PyStr(<<>>))
        ELSE IF abstract_text.t = "list"
             THEN LET summaries == Summaries(abstract_text.v)
                  IN  IF IsExc(summaries) THEN summaries ELSE PyStr(Join(summaries.v))
        ELSE Exc("TypeError")

\* line 168, the condition x['@IdType'] == 'pmc'
IsPmc(id_type) == id_type.t = "str" /\ id_type.v = <<"pmc">>

\* line 168: the list pmc_ids, or the exception raised
RECURSIVE PmcIds(_)
PmcIds(entries) ==
    IF entries = <<>> THEN PyList(<<>>)
    ELSE LET x == Head(entries)
             id_type == Sub(x, "@IdType")
         IN  IF IsExc(id_type) THEN id_type
             ELSE LET rest == PmcIds(Tail(entries))
                      val  == Sub(x, "#text")
                  IN  IF IsPmc(id_type) /\ IsExc(val) THEN val
                      ELSE IF IsExc(rest) THEN rest
                      ELSE IF IsPmc(id_type) THEN PyList(<<val>> \o rest.v)
                      ELSE rest

\* `for x in article_ids`: a list gives its elements; a dict gives its keys and
\* a str its characters, each a str; None is not iterable
Iterate(article_ids) ==
    CASE article_ids.t = "list" -> PyList(article_ids.v)
      [] article_ids.t = "dict" ->
            PyList([i \in 1..Cardinality(DOMAIN article_ids.v) |-> PyStr(<<"key">>)])
      [] article_ids.t = "str" ->
            PyList([i \in 1..Len(article_ids.v) |-> PyStr(<<article_ids.v[i]>>)])
      [] OTHER -> Exc("TypeError")

\* lines 166-174
PmcIdOf(text_dict) ==
    LET article_ids == Path(text_dict, ArticleIdPath)
    IN  IF IsExc(article_ids) THEN PyNone
        ELSE LET entries == Iterate(article_ids)
             IN  IF IsExc(entries) THEN PyNone
                 ELSE LET pmc_ids == PmcIds(entries.v)
                      IN  IF IsExc(pmc_ids) THEN PyNone
                          ELSE IF Len(pmc_ids.v) > 0 THEN pmc_ids.v[1]
                          ELSE PyNone

\* lines 178-181
TitleOf(ar) ==
    LET article_title == Sub(ar, "ArticleTitle")
    IN  IF IsExc(article_title) THEN article_title
        ELSE IF article_title.t = "str" THEN article_title
        ELSE Sub(article_title, "#text")

\* lines 144-165: what _parse_article raises before it requests the citation,
\* PyNone when it reaches the request
HeadFailure(text_dict) ==
    LET ar == ArticleOf(text_dict)
    IN  IF IsExc(ar) THEN ar
        ELSE IF IsExc(SummaryOf(ar)) THEN SummaryOf(ar)
        ELSE PyNone

\* lines 143-188; `citations` is the outcome of lines 176-177: the decoded JSON,
\* or the exception urlopen or json.loads raised
parse_article(uid, text_dict, citations) ==
    LET ar == ArticleOf(text_dict)
        title == TitleOf(ar)
        orig == Path(citations, <<"ama", "orig">>)
    IN  IF IsExc(HeadFailure(text_dict)) THEN HeadFailure(text_dict)
        ELSE IF IsExc(citations) THEN citations
        ELSE IF IsExc(title) THEN title
        ELSE IF IsExc(orig) THEN orig
        ELSE PyDict([uid |-> uid, pmc_id |-> PmcIdOf(text_dict),
                     Summary |-> SummaryOf(ar), Citation |-> orig, title |-> title])

(***************************************************************************)
(* load, line 100, and run, lines 54-58                                    *)
(***************************************************************************)
\* variant of line 100: the summary is not stripped
KeepUnstripped(x) == Len(x.v.Summary.v) > 0

\* the condition of the list comprehension of load
Keep(x) == Len(strip(x.v.Summary.v)) > 0

\* lines 54-57
UrlOf(result) ==
    IF result.v.pmc_id.t = "none"
    THEN <<"https://pubmed.ncbi.nlm.nih.gov/">> \o result.v.uid \o <<"/">>
    ELSE <<"https://www.ncbi.nlm.nih.gov/pmc/articles/">> \o result.v.pmc_id.v \o <<"/">>

\* line 58
ResultDoc(result) ==
    [URL |-> UrlOf(result), Summary |-> result.v.Summary.v, Citation |-> result.v.Citation.v]

(***************************************************************************)
(* The wrapper object and one call of run on it                            *)
(***************************************************************************)
VARIABLES
    pc,           \* where the caller of the wrapper is: "idle", "fetch" (inside
                  \* the loop of lazy_load, about to issue a detail request),
                  \* "done" (run returned docs), "raised" (run raised)
    sleep_time,   \* self.sleep_time
    term,         \* the term= value of the search request of this run
    top_k,        \* top_k_results
    idlist,       \* json_text["esearchresult"]["idlist"]
    webenv,       \* the session token of this run
    idx,          \* position of the loop of line 78 in idlist[:top_k_results]
    retry,        \* the local retry of retrieve_article
    entry_sleep,  \* self.sleep_time when the current retrieve_article was entered
    results,      \* the list load has built so far
    docs,         \* the list run returned
    log,          \* the requests and sleeps of this run, in order
    outcomes,     \* per identifier handled: what retrieve_article returned or raised
    arg,          \* the argument of a function applied on its own
    ret           \* its result

vars == <<pc, sleep_time, term, top_k, idlist, webenv, idx, retry, entry_sleep,
          results, docs, log, outcomes, arg, ret>>

RECURSIVE Pow2(_)
Pow2(n) == IF n = 0 THEN 1 ELSE 2 * Pow2(n - 1)

\* variant of line 78: the slice forgotten
idsAll == idlist

\* line 78: json_text["esearchresult"]["idlist"][:top_k_results]
ids == Slice(idlist, top_k)

Event(op, i, r, d) == [op |-> op, i |-> i, r |-> r, d |-> d]

(***************************************************************************)
(* What the network can answer                                             *)
(***************************************************************************)
UidPool == <<"111", "222", "333", "444", "555">>
Sessions == {"MCID_1"}
\* <ArticleId IdType="type">val</ArticleId>
Entry(type, val) == PyDict([k \in {"@IdType", "#text"} |->
                           IF k = "@IdType" THEN PyStr(<<type>>) ELSE PyStr(<<val>>)])
Absent == [t |-> "absent", v |-> <<>>]
Opt(k, x) == IF x.t = "absent" THEN <<>> ELSE k :> x

\* the dict xmltodict.parse returns for <PubmedArticleSet><PubmedArticle>...
ArticleDoc(ar, id_list) ==
    PyDict("PubmedArticleSet" :> PyDict("PubmedArticle" :>
        PyDict("MedlineCitation" :> PyDict("Article" :> ar)
               @@ "PubmedData" :> PyDict(Opt("ArticleIdList", id_list)))))
\* ... and for <PubmedArticleSet><PubmedBookArticle>...
BookDoc(ar) ==
    PyDict("PubmedArticleSet" :> PyDict("PubmedBookArticle" :>
        PyDict("BookDocument" :> ar)))
\* an article set holding neither record
NeitherDoc == PyDict("PubmedArticleSet" :> PyDict("DeleteCitation" :> PyNone))
\* <PubmedArticleSet></PubmedArticleSet>
EmptySetDoc == PyDict("PubmedArticleSet" :> PyNone)

Ar(abstract_text, title) ==
    PyDict(Opt("Abstract", IF abstract_text.t = "absent" THEN Absent
                           ELSE PyDict("AbstractText" :> abstract_text))
           @@ Opt("ArticleTitle", title))
ArticleIdList(article_id) == PyDict("ArticleId" :> article_id)

CitationOk == PyDict("ama" :> PyDict("orig" :> PyStr(<<"Doe J. Title. 2020.">>)))
CitationNoStyle == PyDict("apa" :> PyDict("orig" :> PyStr(<<"Doe, J. (2020).">>)))

\* the articles the detail endpoint serves in a run: one with an abstract, one
\* whose abstract is blank, and NeitherDoc
GoodDoc == ArticleDoc(Ar(PyStr(<<"a", " ", "b">>), PyStr(<<"T">>)),
                      ArticleIdList(PyList(<<Entry("pubmed", "1"), Entry("doi", "10.1/x")>>)))
BlankDoc == ArticleDoc(Ar(PyStr(<<" ", "\n">>), PyStr(<<"T">>)),
                       ArticleIdList(PyList(<<Entry("pubmed", "2"), Entry("pmc", "PMC123")>>)))
\* the answers a run meets to a detail request that succeeds and to the
\* citation request that may follow it
RunAnswers ==
    {<<GoodDoc, CitationOk>>, <<GoodDoc, Exc("HTTPError")>>,
     <<BlankDoc, CitationOk>>, <<NeitherDoc, CitationOk>>}
\* the ways urlopen fails on a detail request: a rate limit, another HTTP
\* status, no connection.  A whole run meets the rate limit and one of the
\* other two, which lines 126-138 and 92-93 treat alike.
FetchFailures == {"HTTPError 429", "HTTPError 500", "URLError"}
RunFailures == {"HTTPError 429", "URLError"}
RunQueries == {<<"a", ",", " ", "\t", "b">>}

SearchOk(session, n) ==
    PyDict("esearchresult" :> PyDict("webenv" :> PyStr(<<session>>)
        @@ "idlist" :> PyList([j \in 1..n |-> PyStr(<<UidPool[j]>>)])))
SearchResponses ==
    {SearchOk(s, n) : s \in Sessions, n \in 0..MaxIds}
    \cup {Exc("HTTPError"), Exc("URLError"), PyDict("error" :> PyStr(<<"x">>))}

(***************************************************************************)
(* Init: a wrapper as constructed (lines 38-42), no run started            *)
(***************************************************************************)
Fresh ==
    /\ sleep_time = sleep_time_default
    /\ term = <<>>
    /\ top_k = 0
    /\ idlist = <<>>
    /\ webenv = <<>>
    /\ idx = 0
    /\ retry = 0
    /\ entry_sleep = sleep_time_default
    /\ results = <<>>
    /\ docs = <<>>
    /\ log = <<>>
    /\ outcomes = <<>>

Init ==
    /\ pc = "idle"
    /\ Fresh
    /\ arg = PyNone
    /\ ret = PyNone

\* variant of lines 92-93: `except urllib.error.HTTPError`
CatchesHTTPError(e) == e.v \in {"HTTPError", "HTTPError 429", "HTTPError 500"}

(***************************************************************************)
(* lazy_load, lines 92-93: the bare except catches whatever the body raised*)
(***************************************************************************)
Catches(e) == TRUE

\* line 100: the element is kept or dropped as it is yielded
Filtered(list, x) == IF Keep(x) THEN Append(list, x) ELSE list

\* run, lines 52-59
DocsOf(list) == [j \in 1..Len(list) |-> ResultDoc(list[j])]

\* The loop of line 78 goes on after retrieve_article returned or raised `o`
\* for identifier idx; `l` is the log after it.  When the identifiers are
\* used up, load returns and run builds and returns docs.
Advance(o, l) ==
    LET kept == IF IsExc(o) THEN results ELSE Filtered(results, o)
    IN  /\ log' = l
        /\ outcomes' = Append(outcomes, [entry |-> entry_sleep, result |-> o])
        /\ retry' = 0
        /\ entry_sleep' = sleep_time'
        /\ IF IsExc(o) /\ ~Catches(o)
           THEN /\ pc' = "raised"
                /\ UNCHANGED <<idx, results, docs>>
           ELSE /\ results' = kept
                /\ IF idx < Len(ids)
                   THEN /\ pc' = "fetch"
                        /\ idx' = idx + 1
                        /\ docs' = <<>>
                   ELSE /\ pc' = "done"
                        /\ idx' = idx
                        /\ docs' = DocsOf(kept)

(***************************************************************************)
(* run(query, top_k_results) up to and including the search request,       *)
(* lines 50-53 and 66-78                                                   *)
(***************************************************************************)
Run(query, k, resp) ==
    /\ pc = "idle"
    /\ term' = SearchTerm(query)
    /\ top_k' = k
    /\ retry' = 0
    /\ entry_sleep' = sleep_time
    /\ results' = <<>>
    /\ outcomes' = <<>>
    /\ UNCHANGED <<sleep_time, arg, ret>>
    /\ LET session == Path(resp, <<"esearchresult", "webenv">>)
           found == Path(resp, <<"esearchresult", "idlist">>)
       IN  IF IsExc(session) \/ IsExc(found)
           THEN /\ pc' = "raised"
                /\ log' = <<Event("search", 0, "failed", 0)>>
                /\ idlist' = <<>>
                /\ webenv' = <<>>
                /\ idx' = 0
                /\ docs' = <<>>
           ELSE /\ log' = <<Event("search", 0, "ok", 0)>>
                /\ idlist' = [j \in 1..Len(found.v) |-> found.v[j].v]
                /\ webenv' = session.v
                /\ IF Slice(found.v, k) = <<>>
                   THEN pc' = "done" /\ idx' = 0 /\ docs' = DocsOf(<<>>)
                   ELSE pc' = "fetch" /\ idx' = 1 /\ docs' = <<>>

(***************************************************************************)
(* retrieve_article, lines 122-138: one pass of the while loop             *)
(***************************************************************************)
\* variants of line 127: one retry fewer; a retry whatever the status
ShouldRetryEarly(e, n) == e = "HTTPError 429" /\ n < max_retry - 1
ShouldRetryAny(e, n) == n < max_retry

\* line 126: what `except urllib.error.HTTPError` catches
IsHTTPError(e) == e \in {"HTTPError 429", "HTTPError 500"}

\* line 127: e.code == 429 and retry < self.max_retry
ShouldRetry(e, n) == e = "HTTPError 429" /\ n < max_retry

\* variant of line 135: the delay is left as it is
NotDoubled(s) == s

\* line 135
Doubled(s) == s * 2

\* urlopen raises e (line 124): lines 126-138, and what lazy_load does with
\* the exception when retrieve_article lets it out.  The wrapper sleeps only
\* while its delay is below sleep_time_default * 2^budget: that keeps
\* self.sleep_time, which the code never resets, bounded.
AttemptFails(e, budget) ==
    /\ pc = "fetch"
    /\ UNCHANGED <<term, top_k, idlist, webenv, arg, ret>>
    /\ IF IsHTTPError(e) /\ ShouldRetry(e, retry)
       THEN /\ sleep_time < sleep_time_default * Pow2(budget)
            /\ log' = log \o <<Event("detail", idx, e, 0),
                               Event("sleep", idx, "", sleep_time)>>
            /\ sleep_time' = Doubled(sleep_time)
            /\ retry' = retry + 1
            /\ UNCHANGED <<pc, idx, entry_sleep, results, docs, outcomes>>
       ELSE /\ sleep_time' = sleep_time
            /\ Advance(Exc(e), Append(log, Event("detail", idx, e, 0)))

\* the detail request succeeds (line 125); lines 139-141 and _parse_article
\* follow, with its citation request (line 176) when it gets that far
AttemptOk(text_dict, citations) ==
    /\ pc = "fetch"
    /\ UNCHANGED <<term, top_k, idlist, webenv, arg, ret>>
    /\ sleep_time' = sleep_time
    /\ LET l1 == Append(log, Event("detail", idx, "ok", 0))
       IN  IF IsExc(HeadFailure(text_dict))
           THEN Advance(parse_article(ids[idx], text_dict, citations), l1)
           ELSE Advance(parse_article(ids[idx], text_dict, citations),
                        Append(l1, Event("citation", idx,
                                         IF IsExc(citations) THEN "failed" ELSE "ok", 0)))

(***************************************************************************)
(* The caller (PBL of src/pbl.py, lines 68 and 106) takes what run returned *)
(* or raised and keeps the wrapper for its next call                       *)
(***************************************************************************)
Return ==
    /\ pc \in {"done", "raised"}
    /\ pc' = "idle"
    /\ term' = <<>>
    /\ top_k' = 0
    /\ idlist' = <<>>
    /\ webenv' = <<>>
    /\ idx' = 0
    /\ retry' = 0
    /\ entry_sleep' = sleep_time
    /\ results' = <<>>
    /\ docs' = <<>>
    /\ log' = <<>>
    /\ outcomes' = <<>>
    /\ UNCHANGED <<sleep_time, arg, ret>>

Next ==
    \/ \E q \in RunQueries, k \in 0..MaxIds, resp \in SearchResponses : Run(q, k, resp)
    \/ \E e \in RunFailures : AttemptFails(e, MaxSleeps)
    \/ \E a \in RunAnswers : AttemptOk(a[1], a[2])
    \/ Return

Spec == Init /\ [][Next]_vars

(***************************************************************************)
(* retrieve_article on its own: lazy_load has reached the loop of line 78  *)
(* with one identifier, on a wrapper that has slept 0..MaxAged times before*)
(***************************************************************************)
InitFetch ==
    /\ pc = "fetch"
    /\ \E n \in 0..MaxAged : sleep_time = sleep_time_default * Pow2(n)
    /\ entry_sleep = sleep_time
    /\ term = <<"a">>
    /\ top_k = 1
    /\ idlist = <<<<UidPool[1]>>>>
    /\ webenv = <<"MCID_1">>
    /\ idx = 1
    /\ retry = 0
    /\ results = <<>>
    /\ docs = <<>>
    /\ log = <<Event("search", 0, "ok", 0)>>
    /\ outcomes = <<>>
    /\ arg = PyNone
    /\ ret = PyNone

NextFetch ==
    \/ \E e \in FetchFailures : AttemptFails(e, MaxAged + max_retry)
    \/ \E a \in RunAnswers : AttemptOk(a[1], a[2])

SpecFetch == InitFetch /\ [][NextFetch]_vars

(***************************************************************************)
(* _parse_article, load and run applied to one article on its own          *)
(***************************************************************************)
BlockKeys == {"@NlmCategory", "@Label", "#text"}
BlockValue(k, text) ==
    IF k = "@NlmCategory" THEN PyStr(<<"BACKGROUND">>)
    ELSE IF k = "@Label" THEN PyStr(<<"Methods">>)
    ELSE PyStr(<<text>>)
\* <AbstractText NlmCategory=".." Label="..">text</AbstractText>: an element with
\* an attribute is a dict, with "#text" when it has text
DictBlocks ==
    {PyDict([k \in K |-> BlockValue(k, text)]) :
        K \in (SUBSET BlockKeys) \ {{}, {"#text"}}, text \in {"text1", "text2"}}
\* an AbstractText element without attributes is a str, an empty one is None
Blocks == DictBlocks \cup {PyStr(<<"plain">>), PyNone}
\* xmltodict gives a list only for two elements or more
BlockLists == UNION {[1..n -> Blocks] : n \in 2..MaxBlocks}
AbstractTexts ==
    {Absent, PyNone}
    \cup {PyStr(x) : x \in {<<>>, <<"a">>, <<" ">>, <<" ", "a", "\n">>}}
    \cup DictBlocks
    \cup {PyList(l) : l \in BlockLists}
Titles ==
    {PyStr(<<"T">>), PyDict("#text" :> PyStr(<<"T">>)), PyDict("i" :> PyStr(<<"x">>)),
     PyNone, Absent}
Entries ==
    {Entry("pmc", "PMC123"), Entry("pmc", "PMC456"), Entry("pubmed", "1"),
     Entry("doi", "10.1/x"), PyStr(<<"1">>)}
\* one <ArticleId> is the entry itself, several are a list
ArticleIdValues ==
    Entries \cup {PyList(l) : l \in UNION {[1..n -> Entries] : n \in 2..MaxArticleIds}}
IdLists == {Absent, PyNone} \cup {ArticleIdList(a) : a \in ArticleIdValues}
\* several <PubmedArticle> in one set
MultiDoc == PyDict("PubmedArticleSet" :> PyDict("PubmedArticle" :> PyList(<<PyNone, PyNone>>)))
\* <Abstract/>
NoneAbstractDoc == ArticleDoc(PyDict("Abstract" :> PyNone @@ "ArticleTitle" :> PyStr(<<"T">>)), Absent)

ParseDocs ==
    {ArticleDoc(Ar(a, PyStr(<<"T">>)), Absent) : a \in AbstractTexts}
    \cup {BookDoc(Ar(a, PyStr(<<"T">>))) : a \in AbstractTexts}
    \cup {ArticleDoc(Ar(PyStr(<<"a">>), t), i) : t \in Titles, i \in IdLists}
    \cup {BookDoc(Ar(PyStr(<<"a">>), t)) : t \in Titles}
    \cup {NeitherDoc, EmptySetDoc, MultiDoc, NoneAbstractDoc}
ParseCitations == {CitationOk, CitationNoStyle, Exc("HTTPError"), Exc("JSONDecodeError")}
ParseArgs ==
    [uid : {<<"111">>}, text_dict : ParseDocs, citations : {CitationOk}]
    \cup [uid : {<<"222">>}, text_dict : {GoodDoc, BlankDoc}, citations : ParseCitations]

InitParse ==
    /\ pc = "call"
    /\ Fresh
    /\ arg \in ParseArgs
    /\ ret = PyNone

\* retrieve_article, line 141
ParseCall ==
    /\ pc = "call"
    /\ pc' = "parsed"
    /\ ret' = parse_article(arg.uid, arg.text_dict, arg.citations)
    /\ UNCHANGED <<sleep_time, term, top_k, idlist, webenv, idx, retry, entry_sleep,
                   results, docs, log, outcomes, arg>>

\* lazy_load yields it or skips it (lines 91-93), load filters it (line 100)
\* and run turns it into a doc (lines 54-58)
Emit ==
    /\ pc = "parsed"
    /\ pc' = "emitted"
    /\ results' = IF IsExc(ret) THEN <<>> ELSE Filtered(<<>>, ret)
    /\ docs' = DocsOf(results')
    /\ UNCHANGED <<sleep_time, term, top_k, idlist, webenv, idx, retry, entry_sleep,
                   log, outcomes, arg, ret>>

NextParse == ParseCall \/ Emit

SpecParse == InitParse /\ [][NextParse]_vars

(***************************************************************************)
(* The search term of run on its own                                       *)
(***************************************************************************)
QueryChars == {"a", " ", "\t", ","}
Pad(n) == [j \in 1..n |-> "a"]
Tails == UNION {[1..n -> QueryChars] : n \in 0..MaxTail}
Queries ==
    {Pad(n) \o x : n \in {0, 1} \cup ((MAX_QUERY_LENGTH - 3)..MAX_QUERY_LENGTH), x \in Tails}
    \cup {<<"a", " ", " ">> \o Pad(n) \o <<"U+00E9", "(">> : n \in {0} \cup ((MAX_QUERY_LENGTH - 4)..MAX_QUERY_LENGTH)}

InitQuery ==
    /\ pc = "query"
    /\ Fresh
    /\ arg \in {PyStr(q) : q \in Queries}
    /\ ret = PyNone

\* run, lines 50 and 53, and lazy_load, lines 66-72
BuildSearch ==
    /\ pc = "query"
    /\ pc' = "searching"
    /\ ret' = PyStr(LoadQuery(arg.v))
    /\ term' = SearchTerm(arg.v)
    /\ UNCHANGED <<sleep_time, top_k, idlist, webenv, idx, retry, entry_sleep,
                   results, docs, log, outcomes, arg>>

NextQuery == BuildSearch

SpecQuery == InitQuery /\ [][NextQuery]_vars

(***************************************************************************)
(* Properties of a run (specification Spec: C3, C4, C8, C10) and of one    *)
(* fetch (specification SpecFetch: C1, C2, C9)                             *)
(***************************************************************************)
Min(a, b) == IF a < b THEN a ELSE b
Handled == 1..Len(outcomes)
Of(i, ops) == SelectSeq(log, LAMBDA e : e.i = i /\ e.op \in ops)
Details(i) == Of(i, {"detail"})
Sleeps(i) == Of(i, {"sleep"})
Citations(i) == Of(i, {"citation"})
Trace(i) == Of(i, {"detail", "sleep", "citation"})
Raised(o, name) == IsExc(o) /\ o.v = name
AllRateLimited(i) ==
    \A j \in 1..Len(log) :
        (log[j].i = i /\ log[j].op = "detail") => log[j].r = "HTTPError 429"
NonBlank(x) == \E j \in 1..Len(x) : x[j] \notin Whitespace
\* what followed the fetch of identifier i read self.sleep_time as
EntryAfter(i) == IF i < Len(outcomes) THEN outcomes[i + 1].entry ELSE entry_sleep

\* C1, as stated: a fetch whose every detail request is answered with HTTP 429
\* issues exactly max_retry = 5 requests and then raises the 429 error.
C1_Original ==
    \A i \in Handled :
        AllRateLimited(i) =>
            /\ Len(Details(i)) = max_retry
            /\ Raised(outcomes[i].result, "HTTPError 429")

\* C1, amended: a fetch whose every detail request is answered with HTTP 429
\* issues exactly max_retry + 1 = 6 requests (the first and 5 retries), sleeps
\* 5 times, and then raises the 429 error: no value is returned, no citation
\* request and no further detail request is issued for that identifier.
C1_RetryCeiling ==
    /\ \A i \in Handled :
        AllRateLimited(i) =>
            LET tr == Trace(i)
            IN  /\ Raised(outcomes[i].result, "HTTPError 429")
                /\ Len(SelectSeq(tr, LAMBDA e : e.op = "detail")) = max_retry + 1
                /\ Len(SelectSeq(tr, LAMBDA e : e.op = "sleep")) = max_retry
                /\ Len(tr) = 2 * max_retry + 1
                /\ tr[Len(tr)].op = "detail"
    /\ pc = "fetch" => Len(Details(idx)) = retry /\ retry <= max_retry

C1_Witness ==
    \E i \in Handled : AllRateLimited(i) /\ Raised(outcomes[i].result, "HTTPError 429")

RECURSIVE ExpectedDocs(_)
ExpectedDocs(n) ==
    IF n = 0 THEN <<>>
    ELSE ExpectedDocs(n - 1)
         \o (IF ~IsExc(outcomes[n].result) /\ NonBlank(outcomes[n].result.v.Summary.v)
             THEN <<ResultDoc(outcomes[n].result)>>
             ELSE <<>>)

C3_SkipAndContinue ==
    /\ pc = "raised" => log = <<Event("search", 0, "failed", 0)>>
    /\ pc = "fetch" => idx = Len(outcomes) + 1 /\ idx <= Min(top_k, Len(idlist))
    /\ pc = "done" =>
          /\ log[1].r = "ok"
          /\ Len(outcomes) = Min(top_k, Len(idlist))
          /\ \A i \in Handled :
                ~IsExc(outcomes[i].result) => outcomes[i].result.v.uid = idlist[i]
          /\ docs = ExpectedDocs(Len(outcomes))

\* identifiers 111, 222, 333 with 222 malformed: docs for 111 and 333
C3_Witness ==
    /\ pc = "done"
    /\ idlist = <<<<"111">>, <<"222">>, <<"333">>>>
    /\ Len(outcomes) = 3
    /\ ~IsExc(outcomes[1].result) /\ outcomes[1].result.v.uid = <<"111">>
    /\ Raised(outcomes[2].result, "KeyError")
    /\ ~IsExc(outcomes[3].result) /\ outcomes[3].result.v.uid = <<"333">>
    /\ docs = <<ResultDoc(outcomes[1].result), ResultDoc(outcomes[3].result)>>

\* C4: every doc run returns has a summary that is non-empty once stripped; an
\* article with a blank summary is dropped and the others stay; filtering the
\* output again changes nothing.
C4_NonBlankSummaries ==
    /\ \A j \in 1..Len(docs) : NonBlank(docs[j].Summary)
    /\ SelectSeq(docs, LAMBDA d : Len(strip(d.Summary)) > 0) = docs
    /\ pc = "done" =>
          \A i \in Handled :
              (~IsExc(outcomes[i].result) /\ NonBlank(outcomes[i].result.v.Summary.v))
                  => \E j \in 1..Len(docs) : docs[j] = ResultDoc(outcomes[i].result)

C4_Witness ==
    /\ pc = "done"
    /\ Len(outcomes) = 3
    /\ Len(docs) = 2
    /\ ~IsExc(outcomes[2].result)
    /\ outcomes[2].result.v.Summary.v # <<>>
    /\ ~NonBlank(outcomes[2].result.v.Summary.v)

\* C8, as stated: every fetch starts with the backoff delay at the configured
\* base, so the first sleep of any fetch lasts sleep_time = 30.
C8_Claim ==
    /\ pc = "fetch" => entry_sleep = sleep_time_default
    /\ \A i \in Handled :
          /\ outcomes[i].entry = sleep_time_default
          /\ Sleeps(i) # <<>> => Sleeps(i)[1].d = sleep_time_default

\* C9: a detail request that fails with an error other than HTTP 429 ends the
\* fetch at once: that error is raised, with no sleep, no change of the delay
\* and no further request for the identifier, on the first attempt or after
\* earlier 429 retries.
C9_FatalAtOnce ==
    \A i \in Handled :
        LET tr == Trace(i)
            d == SelectSeq(tr, LAMBDA e : e.op = "detail")
            last == d[Len(d)]
        IN  last.r \notin {"ok", "HTTPError 429"} =>
                /\ Raised(outcomes[i].result, last.r)
                /\ tr[Len(tr)] = last
                /\ \A j \in 1..(Len(d) - 1) : d[j].r = "HTTPError 429"
                /\ Len(SelectSeq(tr, LAMBDA e : e.op = "sleep")) = Len(d) - 1
                /\ Len(tr) = 2 * Len(d) - 1
                /\ EntryAfter(i) = outcomes[i].entry * Pow2(Len(d) - 1)

\* HTTP 500 on the third attempt, after two 429 retries
C9_Witness ==
    \E i \in Handled :
        /\ Len(Details(i)) = 3
        /\ Len(Sleeps(i)) = 2
        /\ Raised(outcomes[i].result, "HTTPError 500")

\* C10: the requests of a run form one sequential trace: the search request
\* first and only once; then the identifiers in search order up to topK, all
\* requests of one identifier before any of the next; per identifier at most
\* one citation request, directly after its successful detail request.
C10_Sequential ==
    /\ pc \in {"fetch", "done", "raised"} => log # <<>>
    /\ \A j \in 1..Len(log) :
          /\ log[j].op = "search" <=> j = 1
          /\ log[j].i = 0 <=> j = 1
          /\ log[j].i <= Min(top_k, Len(idlist))
          /\ j > 1 => log[j].i \in {log[j - 1].i, log[j - 1].i + 1}
          /\ (j > 1 /\ log[j].i # log[j - 1].i) => log[j].op = "detail"
          /\ log[j].op = "citation" =>
                /\ log[j - 1].op = "detail" /\ log[j - 1].r = "ok"
                /\ log[j - 1].i = log[j].i
                /\ j < Len(log) => log[j + 1].i = log[j].i + 1
          /\ (log[j].op = "detail" /\ log[j].r = "ok" /\ j < Len(log)) =>
                \/ log[j + 1].op = "citation"
                \/ log[j + 1].i = log[j].i + 1
    /\ pc = "done" => log[Len(log)].i = Min(top_k, Len(idlist))

C10_Witness ==
    /\ pc = "done"
    /\ top_k = 2
    /\ Len(idlist) = 3
    /\ Len(Sleeps(1)) = 1 /\ Len(Citations(1)) = 1
    /\ Len(Details(2)) = 1 /\ Len(Citations(2)) = 1

(***************************************************************************)
(* Properties of one article (specification SpecParse)                     *)
(***************************************************************************)
PubmedUrl(uid) == <<"https://pubmed.ncbi.nlm.nih.gov/">> \o uid \o <<"/">>
PmcUrl(pmc_id) == <<"https://www.ncbi.nlm.nih.gov/pmc/articles/">> \o pmc_id \o <<"/">>

\* the <ArticleId> entries of the article that was parsed
ParsedEntries ==
    LET a == Path(arg.text_dict, ArticleIdPath)
    IN  IF IsExc(a) THEN <<>> ELSE IF a.t = "list" THEN a.v ELSE <<a>>
WellFormed(x) == x.t = "dict" /\ {"@IdType", "#text"} \subseteq DOMAIN x.v
PmcPositions ==
    {j \in 1..Len(ParsedEntries) :
        WellFormed(ParsedEntries[j]) /\ IsPmc(ParsedEntries[j].v["@IdType"])}
FirstPmc == ParsedEntries[CHOOSE j \in PmcPositions : \A m \in PmcPositions : j <= m]

\* C5, as stated: the URL of an emitted doc is the PMC page of the first entry
\* of type 'pmc' when the article's identifier entries hold one, be it the only
\* entry or one among several; it is the PubMed page of the uid when the list
\* is absent, has no 'pmc' entry or is not of the expected structure.
C5_Claim ==
    (pc = "emitted" /\ docs # <<>>) =>
        IF (\A j \in 1..Len(ParsedEntries) : WellFormed(ParsedEntries[j])) /\ PmcPositions # {}
        THEN docs[1].URL = PmcUrl(FirstPmc.v["#text"].v)
        ELSE docs[1].URL = PubmedUrl(arg.uid)

\* the AbstractText of the article that was parsed, Absent when it has none
AbstractOf ==
    LET ar == ArticleOf(arg.text_dict)
    IN  IF ar.t = "dict" /\ "Abstract" \in DOMAIN ar.v /\ ar.v["Abstract"].t = "dict"
           /\ "AbstractText" \in DOMAIN ar.v["Abstract"].v
        THEN ar.v["Abstract"].v["AbstractText"]
        ELSE Absent
StructuredBlocks(a) == a.t = "list" /\ \A j \in 1..Len(a.v) : a.v[j].t = "dict"
Field(b, k) == IF k \in DOMAIN b.v THEN b.v[k].v ELSE <<>>
Prefixed(b) ==
    (IF "@NlmCategory" \in DOMAIN b.v THEN b.v["@NlmCategory"].v \o <<":", " ">> ELSE <<>>)
    \o (IF "@Label" \in DOMAIN b.v THEN b.v["@Label"].v \o <<":", " ">> ELSE <<>>)
    \o Field(b, "#text")
RECURSIVE NewlineJoined(_)
NewlineJoined(lines) ==
    IF lines = <<>> THEN <<>>
    ELSE IF Len(lines) = 1 THEN lines[1]
    ELSE NewlineJoined(SubSeq(lines, 1, Len(lines) - 1)) \o <<"\n">> \o lines[Len(lines)]
SummaryOfShape(a, blocks) ==
    CASE a.t = "str" -> a.v
      [] a.t = "dict" -> Field(a, "#text")
      [] a.t = "absent" -> <<>>
      [] a.t = "list" -> NewlineJoined([j \in 1..Len(blocks) |-> Prefixed(blocks[j])])

\* C7, as stated: the summary is the abstract when it is a str, the text field
\* (or '') of a single block, '' without an abstract, and for a sequence of
\* blocks the newline-join over all blocks of category prefix, label prefix
\* and text.
C7_Original ==
    (pc = "parsed" /\ ~IsExc(ret)
        /\ (AbstractOf.t \in {"str", "dict", "absent"} \/ StructuredBlocks(AbstractOf))) =>
        ret.v.Summary.v = SummaryOfShape(AbstractOf, AbstractOf.v)

\* C7, amended: as stated, but for a sequence of blocks the join is over the
\* blocks that have a text field; a block without one contributes no line.
C7_Summary ==
    (pc = "parsed" /\ ~IsExc(ret)
        /\ (AbstractOf.t \in {"str", "dict", "absent"} \/ StructuredBlocks(AbstractOf))) =>
        ret.v.Summary.v =
            SummaryOfShape(AbstractOf,
                           SelectSeq(AbstractOf.v, LAMBDA b : "#text" \in DOMAIN b.v))

\* blocks [category BACKGROUND, text1] and [label Methods, text2]
C7_Witness ==
    /\ pc = "parsed"
    /\ AbstractOf = PyList(<<PyDict([k \in {"@NlmCategory", "#text"} |-> BlockValue(k, "text1")]),
                             PyDict([k \in {"@Label", "#text"} |-> BlockValue(k, "text2")])>>)
    /\ ~IsExc(ret)
    /\ ret.v.Summary.v =
          <<"BACKGROUND", ":", " ", "text1", "\n", "Methods", ":", " ", "text2">>

(***************************************************************************)
(* Properties of the search term (specification SpecQuery)                 *)
(***************************************************************************)
\* the length of a query once each whitespace run is one character
CollapsedLen(q) ==
    Cardinality({j \in 1..Len(q) : q[j] \notin Whitespace})
    + Cardinality({j \in 1..Len(q) :
                      q[j] \in Whitespace /\ (j = 1 \/ q[j - 1] \notin Whitespace)})
AllSafe(x) == \A j \in 1..Len(x) : x[j] \in QuoteSafe

\* C6, as stated: for a query longer than MAX_QUERY_LENGTH the term submitted
\* in the search request has length exactly MAX_QUERY_LENGTH; a shorter query
\* is not truncated.
C6_Original ==
    pc = "searching" =>
        /\ Len(arg.v) > MAX_QUERY_LENGTH => Len(term) = MAX_QUERY_LENGTH
        /\ Len(arg.v) <= MAX_QUERY_LENGTH => Len(ret.v) = CollapsedLen(arg.v)

\* C6, amended: the cut is made after the whitespace runs are collapsed and
\* before the URL encoding: when the collapsed query is longer than
\* MAX_QUERY_LENGTH the term before encoding has length exactly
\* MAX_QUERY_LENGTH, otherwise it is the whole collapsed query; the encoded
\* term submitted is at least as long, and as long when every character is safe.
C6_Truncation ==
    pc = "searching" =>
        /\ CollapsedLen(arg.v) > MAX_QUERY_LENGTH => Len(ret.v) = MAX_QUERY_LENGTH
        /\ CollapsedLen(arg.v) <= MAX_QUERY_LENGTH => Len(ret.v) = CollapsedLen(arg.v)
        /\ \A j \in 1..Len(ret.v) : ret.v[j] \notin Whitespace
        /\ Len(term) >= Len(ret.v)
        /\ AllSafe(ret.v) => term = ret.v

C6_Witness ==
    /\ pc = "searching"
    /\ CollapsedLen(arg.v) > MAX_QUERY_LENGTH
    /\ CollapsedLen(arg.v) < Len(arg.v)
    /\ Len(ret.v) = MAX_QUERY_LENGTH
    /\ Len(term) > MAX_QUERY_LENGTH
====
